---- MODULE Spec2Model ----
(***************************************************************************)
(* Model of scripts/find-console-statements.py: the line classifier        *)
(* (is_comment_line, is_in_jsdoc), the per-file scan                       *)
(* (find_console_statements) and the orchestration and report (main).      *)
(*                                                                         *)
(* Text is modelled as a sequence of tokens.  A token is a whitespace      *)
(* character, a punctuation character, or a whole identifier; the string   *)
(* operations of the script (strip, rstrip, startswith, endswith, `in`,    *)
(* the regular expression search) are computed on these sequences.         *)
(***************************************************************************)
EXTENDS Integers, Sequences, FiniteSets, TLC

VARIABLES
    pc,             \* position of the running function
    readable,       \* SpecScan: whether open()/readlines() of the file succeeds
    lines,          \* SpecScan: the list returned by f.readlines()
    i,              \* SpecScan: 1-based number of the next line the loop visits
    results,        \* SpecScan: find_console_statements' result list
    classes,        \* SpecScan: branch taken for each visited line
    root_exists,    \* main: whether Path("src") exists
    tree,           \* main: the files under src/, in os.walk order
    walked,         \* main: whether os.walk has been run
    ts_files,       \* main: the list ts_files
    sorted_files,   \* main: sorted(ts_files), the list the scan loop iterates
    idx,            \* main: position of the scan loop in sorted_files
    all_statements, \* main: the dict all_statements, in insertion order
    total_count,    \* main: total_count
    report_items,   \* main: sorted(all_statements.items(), key=...)
    rpos,           \* main: position of the report loop in report_items
    opened,         \* main: paths handed to find_console_statements, in order
    out             \* lines printed to standard output, in order

scanVars == <<readable, lines, i, results, classes>>
mainVars == <<root_exists, tree, walked, ts_files, sorted_files, idx,
              all_statements, total_count, report_items, rpos, opened>>
vars == <<pc, scanVars, mainVars, out>>

(***************************************************************************)
(* Bounds of the model.                                                    *)
(***************************************************************************)
MaxLines == 3
MaxFiles == 3
MaxMatches == 15

(***************************************************************************)
(* String operations on token sequences.                                   *)
(***************************************************************************)
Min(a, b) == IF a <= b THEN a ELSE b

Whitespace == {" ", "\t", "\n"}

RECURSIVE lstrip(_)
lstrip(s) == IF s # <<>> /\ Head(s) \in Whitespace THEN lstrip(Tail(s)) ELSE s

RECURSIVE rstrip(_)
rstrip(s) ==
    IF s # <<>> /\ s[Len(s)] \in Whitespace
    THEN rstrip(SubSeq(s, 1, Len(s) - 1))
    ELSE s

strip(s) == rstrip(lstrip(s))

startswith(s, p) == Len(s) >= Len(p) /\ SubSeq(s, 1, Len(p)) = p

endswith(s, p) ==
    Len(s) >= Len(p) /\ SubSeq(s, Len(s) - Len(p) + 1, Len(s)) = p

contains(s, p) ==
    \E k \in 1..(Len(s) - Len(p) + 1) : SubSeq(s, k, k + Len(p) - 1) = p

Prefix(s, n) == SubSeq(s, 1, Min(n, Len(s)))

LINE_COMMENT == <<"/", "/">>
STAR == <<"*">>
JSDOC_OPEN == <<"/", "*", "*">>
BLOCK_CLOSE == <<"*", "/">>

(***************************************************************************)
(* CONSOLE_PATTERN: console\.(log|error|warn|debug|info|clear)\s*\(        *)
(***************************************************************************)
Methods == {"log", "error", "warn", "debug", "info", "clear"}

\* the positions at which the pattern matches
MatchStarts(line) ==
    {p \in 1..Len(line) :
        /\ p + 2 <= Len(line)
        /\ line[p] = "console"
        /\ line[p + 1] = "."
        /\ line[p + 2] \in Methods
        /\ \E q \in (p + 3)..Len(line) :
              /\ line[q] = "("
              /\ \A r \in (p + 3)..(q - 1) : line[r] \in Whitespace}

Search(line) == MatchStarts(line) # {}

(***************************************************************************)
(* is_in_jsdoc(lines, line_num): line_num is 0-based, as in the script.    *)
(***************************************************************************)
RECURSIVE JsdocScan(_, _, _)
JsdocScan(ls, line_num, k) ==
    IF k < 0 THEN FALSE
    ELSE LET line == strip(ls[k + 1]) IN
         IF startswith(line, JSDOC_OPEN)
         THEN ~ \E j \in k..(line_num - 1) : contains(ls[j + 1], BLOCK_CLOSE)
         ELSE IF ~startswith(line, STAR) /\ line # <<>>
                 /\ ~startswith(line, LINE_COMMENT)
              THEN FALSE
              ELSE JsdocScan(ls, line_num, k - 1)

\* mutant: the close marker is not looked for on the opener line itself
is_in_jsdoc_skip_opener(ls, line_num) ==
    LET RECURSIVE Scan(_)
        Scan(k) ==
            IF k < 0 THEN FALSE
            ELSE LET line == strip(ls[k + 1]) IN
                 IF startswith(line, JSDOC_OPEN)
                 THEN ~ \E j \in (k + 1)..(line_num - 1) :
                            contains(ls[j + 1], BLOCK_CLOSE)
                 ELSE IF ~startswith(line, STAR) /\ line # <<>>
                         /\ ~startswith(line, LINE_COMMENT)
                      THEN FALSE
                      ELSE Scan(k - 1)
    IN Scan(line_num - 1)

is_in_jsdoc(ls, line_num) == JsdocScan(ls, line_num, line_num - 1)

is_comment_line(line) ==
    LET stripped == strip(line) IN
        \/ startswith(stripped, LINE_COMMENT)
        \/ startswith(stripped, STAR)
        \/ startswith(stripped, JSDOC_OPEN)
        \/ startswith(stripped, BLOCK_CLOSE)

(***************************************************************************)
(* The body of the loop of find_console_statements for line n (1-based).   *)
(***************************************************************************)
Classify(ls, n) ==
    IF is_comment_line(ls[n]) THEN "comment"
    ELSE IF is_in_jsdoc(ls, n - 1) THEN "jsdoc"
    ELSE "code"

RECURSIVE Repeat(_, _)
Repeat(x, k) == IF k <= 0 THEN <<>> ELSE <<x>> \o Repeat(x, k - 1)

\* mutant: the JSDoc check is left out
LoopBodyNoJsdoc(ls, n, res) ==
    IF is_comment_line(ls[n]) THEN res
    ELSE IF Search(ls[n]) THEN Append(res, <<n, rstrip(ls[n])>>)
    ELSE res

\* mutant: one entry per console call (findall instead of search)
LoopBodyFindall(ls, n, res) ==
    IF Classify(ls, n) # "code" THEN res
    ELSE res \o Repeat(<<n, rstrip(ls[n])>>, Cardinality(MatchStarts(ls[n])))

LoopBody(ls, n, res) ==
    IF Classify(ls, n) # "code" THEN res
    ELSE IF Search(ls[n]) THEN Append(res, <<n, rstrip(ls[n])>>)
    ELSE res

RECURSIVE ScanLines(_, _, _)
ScanLines(ls, n, res) ==
    IF n > Len(ls) THEN res ELSE ScanLines(ls, n + 1, LoopBody(ls, n, res))

(***************************************************************************)
(* File contents of the single-file specification: every sequence of at    *)
(* most MaxLines lines, each line one of LineBodies followed by a newline. *)
(***************************************************************************)
LineBodies == {
    <<>>,
    <<" ">>,
    <<"x">>,
    <<"/", "*", "*">>,
    <<" ", "*", " ", "console", ".", "log", "(">>,
    <<" ", "*", "/">>,
    <<"/", "/", " ", "console", ".", "warn", "(">>,
    <<" ", "console", ".", "log", "(">>,
    <<"/", "*", "*", " ", "console", ".", "log", "(", " ", "*", "/">>,
    <<"/", "*", " ", "console", ".", "log", "(", " ", "*", "/">>,
    <<"console", ".", "info", "(", " ", "*", "/">>,
    <<"console", ".", "table", "(">>,
    <<"console", ".", "error", " ", "(", "console", ".", "log", "(">>,
    <<"console", ".", "log">> }

Lines == {Append(b, "\n") : b \in LineBodies}

SeqsUpTo(S, n) == UNION {[1..k -> S] : k \in 0..n}

Error(what, path) == [kind |-> what, path |-> path]

NoPath == <<>>

InitScan ==
    /\ pc = "open"
    /\ readable \in BOOLEAN
    /\ lines \in SeqsUpTo(Lines, MaxLines)
    /\ i = 1
    /\ results = <<>>
    /\ classes = <<>>
    /\ root_exists = TRUE
    /\ tree = <<>>
    /\ walked = FALSE
    /\ ts_files = <<>>
    /\ sorted_files = <<>>
    /\ idx = 1
    /\ all_statements = <<>>
    /\ total_count = 0
    /\ report_items = <<>>
    /\ rpos = 1
    /\ opened = <<>>
    /\ out = <<>>

\* open() and readlines() succeed
ReadOk ==
    /\ pc = "open" /\ readable
    /\ pc' = "loop"
    /\ UNCHANGED <<scanVars, mainVars, out>>

\* open() or readlines() raises: the except clause prints and falls through
ReadFail ==
    /\ pc = "open" /\ ~readable
    /\ out' = Append(out, Error("error_read", NoPath))
    /\ pc' = "return"
    /\ UNCHANGED <<scanVars, mainVars>>

Visit(class) ==
    /\ pc = "loop" /\ i <= Len(lines)
    /\ Classify(lines, i) = class
    /\ results' = LoopBody(lines, i, results)
    /\ classes' = Append(classes, class)
    /\ i' = i + 1
    /\ UNCHANGED <<pc, readable, lines, mainVars, out>>

SkipComment == Visit("comment")

SkipJsdoc == Visit("jsdoc")

RecordMatch == Visit("code") /\ Search(lines[i])

NoMatch == Visit("code") /\ ~Search(lines[i])

LoopEnd ==
    /\ pc = "loop" /\ i > Len(lines)
    /\ pc' = "return"
    /\ UNCHANGED <<scanVars, mainVars, out>>

NextScan ==
    \/ ReadOk
    \/ ReadFail
    \/ SkipComment
    \/ SkipJsdoc
    \/ RecordMatch
    \/ NoMatch
    \/ LoopEnd

SpecScan == InitScan /\ [][NextScan]_vars

(***************************************************************************)
(* main: the file tree.  A path is <<d, name>>: the file `name` in the     *)
(* directory src/d.  Every file of a tree lies in a directory of its own,  *)
(* so paths compare by their directory.                                    *)
(***************************************************************************)
TS_SUFFIX == <<".", "ts">>
TEST_SUFFIX == <<".", "test", ".", "ts">>
SPEC_SUFFIX == <<".", "spec", ".", "ts">>

NameTs == <<"a", ".", "ts">>
NameTestTs == <<"a", ".", "test", ".", "ts">>
NameSpecTs == <<"a", ".", "spec", ".", "ts">>
NameJs == <<"a", ".", "js">>
NameBareTestTs == <<"test", ".", "ts">>

SHOW_LIMIT == 10
TEXT_LIMIT == 100

\* the lines of a file with n console statements: a JSDoc block and a line
\* comment that mention console calls, then n statements
DocLines == <<
    <<"/", "*", "*", "\n">>,
    <<" ", "*", " ", "console", ".", "log", "(", "\n">>,
    <<" ", "*", "/", "\n">>,
    <<"/", "/", " ", "console", ".", "warn", "(", "\n">> >>

Statement(k) ==
    IF k % 2 = 1
    THEN <<" ", "console", ".", "log", "(", "\n">>
    ELSE <<"console", ".", "error", " ", "(", "console", ".", "log", "(", "\n">>

Content(n) == DocLines \o [k \in 1..n |-> Statement(k)]

FileKinds ==
    [name : {NameTs}, readable : {TRUE}, nmatch : {0, SHOW_LIMIT, MaxMatches}]
    \cup [name : {NameTs}, readable : {FALSE}, nmatch : {MaxMatches}]
    \cup [name : {NameTestTs, NameSpecTs, NameJs}, readable : {TRUE},
          nmatch : {MaxMatches}]
    \cup [name : {NameBareTestTs}, readable : {TRUE}, nmatch : {1}]

\* the orders in which os.walk lists k directories: ascending, descending
\* and ascending from the second directory on
WalkOrders(k) ==
    {[j \in 1..k |-> j],
     [j \in 1..k |-> k + 1 - j],
     [j \in 1..k |-> (j % k) + 1]}

FileAt(p) == CHOOSE f \in {tree[k] : k \in 1..Len(tree)} : f.path = p

PathLess(p, q) == p[1] < q[1]

RECURSIVE InsertPath(_, _)
InsertPath(s, p) ==
    IF s = <<>> THEN <<p>>
    ELSE IF PathLess(p, Head(s)) THEN <<p>> \o s
    ELSE <<Head(s)>> \o InsertPath(Tail(s), p)

RECURSIVE SortedPaths(_)
SortedPaths(s) ==
    IF s = <<>> THEN <<>>
    ELSE InsertPath(SortedPaths(SubSeq(s, 1, Len(s) - 1)), s[Len(s)])

\* sorted(items, key=lambda x: -len(x[1])): stable, an item goes after
\* every earlier item whose key is not greater
RECURSIVE InsertItem(_, _)
InsertItem(s, x) ==
    IF s = <<>> THEN <<x>>
    ELSE IF -Len(x[2]) < -Len(Head(s)[2]) THEN <<x>> \o s
    ELSE <<Head(s)>> \o InsertItem(Tail(s), x)

RECURSIVE InsertItemAscending(_, _)
InsertItemAscending(s, x) ==
    IF s = <<>> THEN <<x>>
    ELSE IF Len(x[2]) < Len(Head(s)[2]) THEN <<x>> \o s
    ELSE <<Head(s)>> \o InsertItemAscending(Tail(s), x)

\* mutant: the key is len(x[1]), without the minus sign
RECURSIVE SortedByCountAscending(_)
SortedByCountAscending(s) ==
    IF s = <<>> THEN <<>>
    ELSE InsertItemAscending(
             SortedByCountAscending(SubSeq(s, 1, Len(s) - 1)), s[Len(s)])

RECURSIVE SortedByCount(_)
SortedByCount(s) ==
    IF s = <<>> THEN <<>>
    ELSE InsertItem(SortedByCount(SubSeq(s, 1, Len(s) - 1)), s[Len(s)])

\* mutant: the .spec.ts exclusion is missing
is_target_no_spec(file) ==
    endswith(file, TS_SUFFIX) /\ ~endswith(file, TEST_SUFFIX)

is_target(file) ==
    /\ endswith(file, TS_SUFFIX)
    /\ ~endswith(file, TEST_SUFFIX)
    /\ ~endswith(file, SPEC_SUFFIX)

\* find_console_statements as main calls it: the list it returns
find_console_statements(file_path) ==
    LET f == FileAt(file_path) IN
        IF f.readable THEN ScanLines(Content(f.nmatch), 1, <<>>) ELSE <<>>

\* what find_console_statements prints
ReadDiagnostics(file_path) ==
    IF FileAt(file_path).readable THEN <<>>
    ELSE <<Error("error_read", file_path)>>

Entry(m) ==
    [kind |-> "entry", line_num |-> m[1], text |-> Prefix(m[2], TEXT_LIMIT)]

\* mutant: the overflow line is printed from SHOW_LIMIT matches on
FileBlockOverflowAtLimit(file_path, statements) ==
    <<[kind |-> "file", path |-> file_path, n |-> Len(statements)]>>
    \o [k \in 1..Min(SHOW_LIMIT, Len(statements)) |-> Entry(statements[k])]
    \o (IF Len(statements) >= SHOW_LIMIT
        THEN <<[kind |-> "more", n |-> Len(statements) - SHOW_LIMIT]>>
        ELSE <<>>)

\* the lines printed for one file of the report
FileBlock(file_path, statements) ==
    <<[kind |-> "file", path |-> file_path, n |-> Len(statements)]>>
    \o [k \in 1..Min(SHOW_LIMIT, Len(statements)) |-> Entry(statements[k])]
    \o (IF Len(statements) > SHOW_LIMIT
        THEN <<[kind |-> "more", n |-> Len(statements) - SHOW_LIMIT]>>
        ELSE <<>>)

Init ==
    /\ pc = "main"
    /\ root_exists \in BOOLEAN
    /\ \E k \in 0..MaxFiles :
          \E ds \in WalkOrders(k), ks \in [1..k -> FileKinds] :
              tree = [j \in 1..k |-> [path |-> <<ds[j], ks[j].name>>,
                                     readable |-> ks[j].readable,
                                     nmatch |-> ks[j].nmatch]]
    /\ ~root_exists => tree = <<>>
    /\ walked = FALSE
    /\ ts_files = <<>>
    /\ sorted_files = <<>>
    /\ idx = 1
    /\ all_statements = <<>>
    /\ total_count = 0
    /\ report_items = <<>>
    /\ rpos = 1
    /\ opened = <<>>
    /\ out = <<>>
    /\ readable = TRUE
    /\ lines = <<>>
    /\ i = 1
    /\ results = <<>>
    /\ classes = <<>>

\* mutant: the return after the error message is missing
CheckRootNoReturn ==
    /\ pc = "main"
    /\ out' = IF root_exists THEN out
              ELSE Append(out, [kind |-> "error_root"])
    /\ pc' = "walk"
    /\ UNCHANGED <<scanVars, mainVars>>

CheckRoot ==
    /\ pc = "main"
    /\ IF root_exists
       THEN pc' = "walk" /\ out' = out
       ELSE pc' = "done" /\ out' = Append(out, [kind |-> "error_root"])
    /\ UNCHANGED <<scanVars, mainVars>>

Walk ==
    /\ pc = "walk"
    /\ walked' = TRUE
    /\ ts_files' = [k \in 1..Len(SelectSeq(tree, LAMBDA f : is_target(f.path[2])))
                      |-> SelectSeq(tree, LAMBDA f : is_target(f.path[2]))[k].path]
    /\ pc' = "count"
    /\ UNCHANGED <<scanVars, root_exists, tree, sorted_files, idx,
                   all_statements, total_count, report_items, rpos, opened, out>>

PrintCount ==
    /\ pc = "count"
    /\ out' = Append(out, [kind |-> "scanning", n |-> Len(ts_files)])
    /\ sorted_files' = SortedPaths(ts_files)
    /\ idx' = 1
    /\ pc' = "scan"
    /\ UNCHANGED <<scanVars, root_exists, tree, walked, ts_files,
                   all_statements, total_count, report_items, rpos, opened>>

\* mutant: a file that cannot be read ends the scan loop
ScanFileStopOnError ==
    /\ pc = "scan" /\ idx <= Len(sorted_files)
    /\ LET file_path == sorted_files[idx]
           statements == find_console_statements(file_path)
       IN /\ opened' = Append(opened, file_path)
          /\ out' = out \o ReadDiagnostics(file_path)
          /\ IF statements # <<>>
             THEN /\ all_statements' =
                        Append(all_statements, <<file_path, statements>>)
                  /\ total_count' = total_count + Len(statements)
             ELSE UNCHANGED <<all_statements, total_count>>
          /\ idx' = IF FileAt(file_path).readable THEN idx + 1
                    ELSE Len(sorted_files) + 1
    /\ UNCHANGED <<pc, scanVars, root_exists, tree, walked, ts_files,
                   sorted_files, report_items, rpos>>

ScanFile ==
    /\ pc = "scan" /\ idx <= Len(sorted_files)
    /\ LET file_path == sorted_files[idx]
           statements == find_console_statements(file_path)
       IN /\ opened' = Append(opened, file_path)
          /\ out' = out \o ReadDiagnostics(file_path)
          /\ IF statements # <<>>
             THEN /\ all_statements' =
                        Append(all_statements, <<file_path, statements>>)
                  /\ total_count' = total_count + Len(statements)
             ELSE UNCHANGED <<all_statements, total_count>>
    /\ idx' = idx + 1
    /\ UNCHANGED <<pc, scanVars, root_exists, tree, walked, ts_files,
                   sorted_files, report_items, rpos>>

PrintFound ==
    /\ pc = "scan" /\ idx > Len(sorted_files)
    /\ all_statements # <<>>
    /\ out' = Append(out, [kind |-> "found", total |-> total_count,
                           files |-> Len(all_statements)])
    /\ report_items' = SortedByCount(all_statements)
    /\ rpos' = 1
    /\ pc' = "report"
    /\ UNCHANGED <<scanVars, root_exists, tree, walked, ts_files,
                   sorted_files, idx, all_statements, total_count, opened>>

PrintNone ==
    /\ pc = "scan" /\ idx > Len(sorted_files)
    /\ all_statements = <<>>
    /\ out' = Append(out, [kind |-> "none"])
    /\ pc' = "done"
    /\ UNCHANGED <<scanVars, mainVars>>

ReportFile ==
    /\ pc = "report" /\ rpos <= Len(report_items)
    /\ out' = out \o FileBlock(report_items[rpos][1], report_items[rpos][2])
    /\ rpos' = rpos + 1
    /\ UNCHANGED <<pc, scanVars, root_exists, tree, walked, ts_files,
                   sorted_files, idx, all_statements, total_count,
                   report_items, opened>>

ReportEnd ==
    /\ pc = "report" /\ rpos > Len(report_items)
    /\ pc' = "done"
    /\ UNCHANGED <<scanVars, mainVars, out>>

Next ==
    \/ CheckRoot
    \/ Walk
    \/ PrintCount
    \/ ScanFile
    \/ PrintFound
    \/ PrintNone
    \/ ReportFile
    \/ ReportEnd

Spec == Init /\ [][Next]_vars

(***************************************************************************)
(* Properties of main (checked under Spec).                                *)
(***************************************************************************)
TreeFiles == {tree[k] : k \in 1..Len(tree)}

\* the names of FileKinds that end with .ts and with neither .test.ts nor
\* .spec.ts
TargetNames == {NameTs, NameBareTestTs}

Targets == {f \in TreeFiles : f.path[2] \in TargetNames}

FilePos == {k \in 1..Len(out) : out[k].kind = "file"}

Reported == {out[k].path : k \in FilePos}

Recorded == {all_statements[k][1] : k \in 1..Len(all_statements)}

NonePrinted == \E k \in 1..Len(out) : out[k].kind = "none"

ScanFinished == root_exists /\ pc \in {"report", "done"}

Pos(s, x) == CHOOSE k \in 1..Len(s) : s[k] = x

StatementsOf(p) == all_statements[Pos([k \in 1..Len(all_statements) |->
                                          all_statements[k][1]], p)][2]

\* the Matches of a readable file made by Content(n)
ExpectedMatches(n) ==
    [k \in 1..n |-> <<Len(DocLines) + k, rstrip(Statement(k))>>]

\* C4: a target file that cannot be read is never recorded nor reported and
\* gets a diagnostic; once the scan loop has ended every target file has
\* been handed to find_console_statements exactly once, and the matches
\* recorded for each readable file are those of its own content.
ReadFailureIsIsolated ==
    /\ \A f \in Targets :
          ~f.readable => f.path \notin Recorded /\ f.path \notin Reported
    /\ \A k \in 1..Len(opened) :
          ~FileAt(opened[k]).readable =>
              \E j \in 1..Len(out) : out[j] = Error("error_read", opened[k])
    /\ ScanFinished =>
          /\ Len(opened) = Cardinality(Targets)
          /\ {opened[k] : k \in 1..Len(opened)} = {f.path : f \in Targets}
          /\ Recorded = {f.path : f \in {g \in Targets :
                                            g.readable /\ g.nmatch > 0}}
          /\ Len(all_statements) = Cardinality(Recorded)
          /\ \A f \in Targets : f.path \in Recorded =>
                StatementsOf(f.path) = ExpectedMatches(f.nmatch)

\* a finished run in which an unreadable target file was scanned before a
\* readable one that is reported
W_ReadFailureIsIsolated ==
    /\ pc = "done"
    /\ \E f, g \in Targets :
          /\ ~f.readable
          /\ PathLess(f.path, g.path)
          /\ g.path \in Reported

\* C5: in the report a file with strictly more matches is printed before a
\* file with fewer, files with the same number of matches are printed in
\* the order of the sorted path list, and at the end every recorded file
\* has been printed with its number of matches.
ReportOrder ==
    /\ \A a, b \in FilePos : a < b =>
          /\ out[a].n >= out[b].n
          /\ out[a].n = out[b].n =>
                Pos(sorted_files, out[a].path) < Pos(sorted_files, out[b].path)
    /\ \A a \in FilePos :
          out[a].path \in Recorded /\ out[a].n = Len(StatementsOf(out[a].path))
    /\ (root_exists /\ pc = "done") => Reported = Recorded

\* a finished report with a file printed before one that precedes it in
\* path order, and two files with the same number of matches
W_ReportOrder ==
    /\ pc = "done"
    /\ \E a, b \in FilePos :
          a < b /\ out[a].n > out[b].n /\ PathLess(out[b].path, out[a].path)
    /\ \E a, b \in FilePos : a < b /\ out[a].n = out[b].n

\* C6: a reported file with n matches is followed by exactly min(n, 10)
\* entries, its first min(n, 10) matches in line order, and then by an
\* overflow line giving n - 10 if and only if n > 10.
Truncation ==
    /\ \A k \in FilePos :
          LET n == out[k].n
              S == StatementsOf(out[k].path)
              m == IF n <= 10 THEN n ELSE 10
              after == IF n > 10 THEN k + m + 2 ELSE k + m + 1
          IN /\ n = Len(S)
             /\ k + m <= Len(out)
             /\ \A j \in 1..m :
                   /\ out[k + j].kind = "entry"
                   /\ out[k + j].line_num = S[j][1]
                   /\ out[k + j].text = S[j][2]
             /\ n > 10 =>
                   /\ k + m + 1 <= Len(out)
                   /\ out[k + m + 1] = [kind |-> "more", n |-> n - 10]
             /\ after <= Len(out) => out[after].kind = "file"
    /\ \A k \in 1..Len(out) :
          out[k].kind \in {"entry", "more"} =>
              k > 1 /\ out[k - 1].kind \in {"file", "entry"}

\* a finished report with a file of exactly 10 matches and a file of 15,
\* the latter followed by 10 entries and "5 more"
W_Truncation ==
    /\ pc = "done"
    /\ \E k \in FilePos : out[k].n = 10
    /\ \E k \in FilePos :
          /\ out[k].n = 15
          /\ k + 11 <= Len(out)
          /\ out[k + 10].kind = "entry"
          /\ out[k + 11] = [kind |-> "more", n |-> 5]

ExpectedReported ==
    {f.path : f \in {g \in Targets : g.readable /\ g.nmatch > 0}}

\* C7: with the root directory present, the files of the report are the
\* target files that were read and have a Match, each printed once, and
\* the "no console statements" line is printed exactly when there is none.
ReportedIffTargetWithMatches ==
    /\ Reported \subseteq ExpectedReported
    /\ \A a, b \in FilePos : out[a].path = out[b].path => a = b
    /\ NonePrinted => Reported = {} /\ ExpectedReported = {}
    /\ (root_exists /\ pc = "done") =>
          /\ Reported = ExpectedReported
          /\ NonePrinted <=> Reported = {}

\* a finished run over a tree with a .spec.ts file full of console calls,
\* a target file without any and a reported file
W_ReportedIffTargetWithMatches ==
    /\ pc = "done"
    /\ \E f \in TreeFiles : f.path[2] = NameSpecTs /\ f.nmatch > 0
    /\ \E f \in Targets : f.readable /\ f.nmatch = 0
    /\ Reported # {}

ReportKinds == {"found", "file", "entry", "more", "none"}

\* C8: without the root directory main prints the error only: nothing is
\* enumerated, opened or reported; with it, the file count is printed
\* before a file is opened and report lines only after all were opened.
RootCheckedFirst ==
    /\ ~root_exists =>
          /\ ~walked /\ ts_files = <<>> /\ opened = <<>>
          /\ \A k \in 1..Len(out) : out[k].kind = "error_root"
          /\ pc = "done" => out = <<[kind |-> "error_root"]>>
    /\ root_exists =>
          /\ \A k \in 1..Len(out) : out[k].kind # "error_root"
          /\ opened # <<>> => out[1].kind = "scanning"
          /\ \A k \in 1..Len(out) : out[k].kind \in ReportKinds =>
                /\ k > 1 /\ out[1].kind = "scanning"
                /\ Len(opened) = Cardinality(Targets)
          /\ pc = "done" =>
                \E k \in 1..Len(out) : out[k].kind \in {"found", "none"}

\* main has returned after finding no root directory
W_RootCheckedFirst ==
    /\ pc = "done"
    /\ ~root_exists
    /\ out = <<[kind |-> "error_root"]>>

(***************************************************************************)
(* Properties of find_console_statements (checked under SpecScan).         *)
(***************************************************************************)
MatchLines == {results[k][1] : k \in 1..Len(results)}

Visited == 1..(i - 1)

\* C1: every Match refers to a line of the file that is_comment_line
\* rejects, that is_in_jsdoc rejects and that the console pattern matches;
\* a visited line that rule 1 or rule 2 classifies as comment has no Match.
MatchesAreCodeLines ==
    /\ \A n \in MatchLines :
          /\ n \in 1..Len(lines)
          /\ ~is_comment_line(lines[n])
          /\ ~is_in_jsdoc(lines, n - 1)
          /\ Search(lines[n])
    /\ \A n \in Visited :
          (is_comment_line(lines[n]) \/ is_in_jsdoc(lines, n - 1))
              => n \notin MatchLines

\* a finished scan that returned a Match and skipped a line with a console
\* call that is_in_jsdoc places inside a JSDoc block
W_MatchesAreCodeLines ==
    /\ pc = "return"
    /\ results # <<>>
    /\ \E n \in Visited : Classify(lines, n) = "jsdoc" /\ Search(lines[n])

Qualifying == {n \in Visited : Classify(lines, n) = "code" /\ Search(lines[n])}

\* C2: the result list holds exactly one Match per visited non-comment
\* line that matches the pattern (also when the line holds several console
\* calls), with the line's 1-based number and its right-trimmed text, the
\* line numbers strictly increasing.
OneMatchPerQualifyingLine ==
    /\ readable => Len(results) = Cardinality(Qualifying)
    /\ ~readable => results = <<>>
    /\ \A k \in 1..Len(results) :
          /\ results[k][1] \in Qualifying
          /\ results[k][2] = rstrip(lines[results[k][1]])
    /\ \A k \in 1..(Len(results) - 1) : results[k][1] < results[k + 1][1]

\* a finished scan with two Matches, one of them for a line with two calls
W_OneMatchPerQualifyingLine ==
    /\ pc = "return"
    /\ Len(results) = 2
    /\ \E n \in MatchLines : Cardinality(MatchStarts(lines[n])) = 2

\* line n (1-based) lies strictly after a line starting with /** and
\* strictly before the first line at or after that opener that holds */
InsideJsdocBlock(ls, n) ==
    \E o \in 1..(n - 1) :
        /\ startswith(strip(ls[o]), JSDOC_OPEN)
        /\ \A j \in o..n : ~contains(ls[j], BLOCK_CLOSE)

\* C3: no Match is returned for a line that lies inside a JSDoc comment
\* block (after a /** opener and before the first */ at or after it).
JsdocBlockLinesNeverMatched ==
    \A n \in MatchLines : ~InsideJsdocBlock(lines, n)

BLOCK_OPEN == <<"/", "*">>

Rule1AsStated(line) ==
    LET stripped == strip(line) IN
        \/ startswith(stripped, LINE_COMMENT)
        \/ startswith(stripped, BLOCK_OPEN)
        \/ startswith(stripped, BLOCK_CLOSE)
        \/ startswith(stripped, STAR)

\* C9: a visited line whose trimmed text starts with //, /*, */ or * is
\* classified as comment by rule 1 and yields no Match.
Rule1SkipsEveryCommentMarker ==
    \A n \in 1..Len(classes) :
        Rule1AsStated(lines[n]) =>
            classes[n] = "comment" /\ n \notin MatchLines

IsOpener(line) == startswith(strip(line), JSDOC_OPEN)

IsBlank(line) == strip(line) = <<>>

\* the backward scan from line n (1-based) reaches the opener on line o
\* before it meets a non-blank, non-comment line
ScanReaches(ls, n, o) ==
    /\ o < n
    /\ IsOpener(ls[o])
    /\ \A k \in (o + 1)..(n - 1) :
          /\ ~IsOpener(ls[k])
          /\ IsBlank(ls[k]) \/ is_comment_line(ls[k])

\* C10 as stated: a line that rule 1 does not classify is classified by rule
\* 2 exactly when the backward scan reaches an opener and no line strictly
\* between the opener and the current line contains */.
Rule2ClosedBetween ==
    \A n \in 1..Len(classes) :
        classes[n] # "comment" =>
            (classes[n] = "jsdoc" <=>
                \E o \in 1..(n - 1) :
                    /\ ScanReaches(lines, n, o)
                    /\ \A j \in (o + 1)..(n - 1) :
                          ~contains(lines[j], BLOCK_CLOSE))

\* C10 as amended: the lines searched for */ run from the opener line
\* itself up to, not including, the current line.
Rule2ClosedFromOpener ==
    \A n \in 1..Len(classes) :
        classes[n] # "comment" =>
            (classes[n] = "jsdoc" <=>
                \E o \in 1..(n - 1) :
                    /\ ScanReaches(lines, n, o)
                    /\ \A j \in o..(n - 1) :
                          ~contains(lines[j], BLOCK_CLOSE))

\* a line with a console call was classified as code right after a
\* one-line /** ... */ comment, and an earlier line as inside a JSDoc block
W_Rule2ClosedFromOpener ==
    /\ \E n \in 2..Len(classes) :
          /\ classes[n] = "code"
          /\ IsOpener(lines[n - 1])
          /\ contains(lines[n - 1], BLOCK_CLOSE)
          /\ Search(lines[n])
          /\ n \in MatchLines

====
